---- MODULE Spec2Model ----
(***************************************************************************)
(* biclustpy/main.py: the Algorithm selector object and the orchestrator   *)
(* compute_bi_clusters.  Graphs are records [nodes, edges]; an edge is a   *)
(* pair <<row node, column node>>; row i of the matrix is node i and       *)
(* column k is node num_rows + k.  The weight matrix is a sequence of rows *)
(* (weights[i + 1][k + 1] is numpy's weights[i][k]).                        *)
(***************************************************************************)
EXTENDS Integers, Sequences, FiniteSets, TLC

VARIABLES
    algorithm_name, ilp_time_limit, ilp_tune, ch_alpha, ch_seed,
    last_use, delegated, solver_answer, run_return,
    pc, weights, num_rows, num_cols, components, bi_clusters, subgraphs,
    obj_val, is_optimal, counter, calls, result, error

algorithm == <<algorithm_name, ilp_time_limit, ilp_tune, ch_alpha, ch_seed>>
observed == <<last_use, delegated, solver_answer, run_return>>
locals == <<pc, weights, num_rows, num_cols, components, bi_clusters, subgraphs,
            obj_val, is_optimal, counter, calls, result, error>>
vars == <<algorithm, observed, locals>>

----------------------------------------------------------------------------
(* Bounds of the model *)

NumRows == 4
NumCols == 4

----------------------------------------------------------------------------
(* Program constants *)

DefaultTimeLimit == 60
DefaultAlpha == 1

None == <<>>
TimeLimits == {0, DefaultTimeLimit}
Alphas == {0, DefaultAlpha}
Seeds == {None, <<7>>}
AlgorithmNames == {"ILP", "CH", "XYZ"}

----------------------------------------------------------------------------
(* helpers: index translation, graph construction, components, predicate *)

is_row(node, n) == node < n
is_col(node, n) == node >= n
node_to_col(node, n) == node - n

build_graph_from_weights(w) ==
    LET n == Len(w)
        m == Len(w[1])
    IN [nodes |-> 0 .. (n + m - 1),
        edges |-> {e \in (0 .. (n - 1)) \X (n .. (n + m - 1)) :
                      w[e[1] + 1][e[2] - n + 1] > 0}]

Induced(g, S) ==
    [nodes |-> S, edges |-> {e \in g.edges : e[1] \in S /\ e[2] \in S}]

RECURSIVE Reach(_, _)
Reach(g, S) ==
    LET T == S \cup {u \in g.nodes :
                        \E v \in S : <<v, u>> \in g.edges \/ <<u, v>> \in g.edges}
    IN IF T = S THEN S ELSE Reach(g, T)

MinOf(S) == CHOOSE x \in S : \A y \in S : x <= y

RECURSIVE ComponentsFrom(_, _)
ComponentsFrom(g, remaining) ==
    IF remaining = {} THEN <<>>
    ELSE LET C == Reach(g, {MinOf(remaining)})
         IN <<Induced(g, C)>> \o ComponentsFrom(g, remaining \ C)

connected_components(g) == ComponentsFrom(g, g.nodes)

RowsOf(g, n) == {v \in g.nodes : is_row(v, n)}
ColsOf(g, n) == {v \in g.nodes : is_col(v, n)}

is_bi_clique(g, n) ==
    \A r \in RowsOf(g, n) : \A c \in ColsOf(g, n) : <<r, c>> \in g.edges

----------------------------------------------------------------------------
(* The solvers ilp.run and ch.run.  The orchestrator does not trust them:   *)
(* an answer is any triple (graph, cost, is_optimal) in which the graph is  *)
(* the given subgraph with at most MaxEdits row/column pairs toggled, or    *)
(* the given subgraph with one node lost, and the cost is the edit cost of  *)
(* the toggled pairs.                                                        *)

MaxEdits == 1

Abs(x) == IF x < 0 THEN -x ELSE x

RECURSIVE EditCost(_, _, _)
EditCost(w, n, T) ==
    IF T = {} THEN 0
    ELSE LET e == CHOOSE x \in T : TRUE
         IN Abs(w[e[1] + 1][e[2] - n + 1]) + EditCost(w, n, T \ {e})

Toggle(E, T) == (E \ T) \cup (T \ E)

SolverAnswers(w, sub) ==
    LET n == Len(w)
        pairs == RowsOf(sub, n) \X ColsOf(sub, n)
        edited == {[graph |-> [nodes |-> sub.nodes, edges |-> Toggle(sub.edges, T)],
                    cost |-> EditCost(w, n, T)] :
                      T \in {X \in SUBSET pairs : Cardinality(X) <= MaxEdits}}
        lossy == {[graph |-> Induced(sub, sub.nodes \ {v}), cost |-> 0] :
                      v \in sub.nodes}
    IN {[graph |-> a.graph, cost |-> a.cost, is_optimal |-> o] :
            a \in edited \cup lossy, o \in BOOLEAN}

----------------------------------------------------------------------------
(* class Algorithm *)

AlgorithmInit ==
    /\ algorithm_name = "ILP"
    /\ ilp_time_limit = DefaultTimeLimit
    /\ ilp_tune = FALSE
    /\ ch_alpha = DefaultAlpha
    /\ ch_seed = None

\* mutant: an unknown name falls through to the heuristic
Dispatch_FallsThrough(name, time_limit, tune, alpha, seed) ==
    IF name = "ILP" THEN <<"ilp.run", time_limit, tune>>
    ELSE <<"ch.run", alpha, seed>>

Dispatch(name, time_limit, tune, alpha, seed) ==
    IF name = "ILP" THEN <<"ilp.run", time_limit, tune>>
    ELSE IF name = "CH" THEN <<"ch.run", alpha, seed>>
    ELSE <<"raise", "Invalid algorithm name", name, "Options", "ILP", "CH">>

run(answer) ==
    LET d == Dispatch(algorithm_name, ilp_time_limit, ilp_tune, ch_alpha, ch_seed)
    IN [raised |-> d[1] = "raise", call |-> d, ret |-> answer]

use_ilp(time_limit, tune) ==
    /\ pc = "idle"
    /\ algorithm_name' = "ILP"
    /\ ilp_time_limit' = time_limit
    /\ ilp_tune' = tune
    /\ last_use' = <<"ILP", time_limit, tune>>
    /\ UNCHANGED <<ch_alpha, ch_seed, delegated, solver_answer, run_return, locals>>

\* mutant: use_ch forgets the seed
use_ch_KeepsSeed(alpha, seed) ==
    /\ pc = "idle"
    /\ algorithm_name' = "CH"
    /\ ch_alpha' = alpha
    /\ last_use' = <<"CH", alpha, seed>>
    /\ UNCHANGED <<ch_seed, ilp_time_limit, ilp_tune, delegated, solver_answer,
                   run_return, locals>>

use_ch(alpha, seed) ==
    /\ pc = "idle"
    /\ algorithm_name' = "CH"
    /\ ch_alpha' = alpha
    /\ ch_seed' = seed
    /\ last_use' = <<"CH", alpha, seed>>
    /\ UNCHANGED <<ilp_time_limit, ilp_tune, delegated, solver_answer, run_return, locals>>

----------------------------------------------------------------------------
(* compute_bi_clusters *)

RECURSIVE SortedNodes(_)
SortedNodes(S) ==
    IF S = {} THEN <<>>
    ELSE <<MinOf(S)>> \o SortedNodes(S \ {MinOf(S)})

RECURSIVE MapNodeToCol(_, _)
MapNodeToCol(s, n) ==
    IF s = <<>> THEN <<>>
    ELSE <<node_to_col(Head(s), n)>> \o MapNodeToCol(Tail(s), n)

\* mutant: the column nodes are not translated back to column indices
make_bi_cluster_NoColTranslation(component, n) ==
    <<SortedNodes(RowsOf(component, n)), SortedNodes(ColsOf(component, n))>>

\* lines 112-117 and 153-158: split a component's nodes into (rows, columns)
make_bi_cluster(component, n) ==
    <<SortedNodes(RowsOf(component, n)),
      MapNodeToCol(SortedNodes(ColsOf(component, n)), n)>>

RECURSIVE MapBiClusters(_, _)
MapBiClusters(comps, n) ==
    IF comps = <<>> THEN <<>>
    ELSE <<make_bi_cluster(Head(comps), n)>> \o MapBiClusters(Tail(comps), n)

\* mutant: the test of line 111 inverted
IsTrivial_Inverted(component, n) == ~is_bi_clique(component, n)

\* mutant: a component without an edge is not taken for a bi-clique
IsTrivial_NeedsBothSides(component, n) ==
    /\ is_bi_clique(component, n)
    /\ RowsOf(component, n) # {}
    /\ ColsOf(component, n) # {}

\* line 111: the components the first loop turns into bi-clusters at once
IsTrivial(component, n) == is_bi_clique(component, n)

RECURSIVE Filter(_, _, _)
Filter(comps, n, keep) ==
    IF comps = <<>> THEN <<>>
    ELSE IF IsTrivial(Head(comps), n) = keep
         THEN <<Head(comps)>> \o Filter(Tail(comps), n, keep)
         ELSE Filter(Tail(comps), n, keep)

Range(s) == {s[i] : i \in 1 .. Len(s)}

RECURSIVE Orderings(_)
Orderings(S) ==
    IF S = {} THEN {<<>>}
    ELSE UNION {{<<x>> \o s : s \in Orderings(S \ {x})} : x \in S}

\* mutants: the total overwritten; the flag disjoined; the flag overwritten
AddObjVal_Overwrite(total, local) == local
AndOptimal_Or(flag, local) == flag \/ local
AndOptimal_Last(flag, local) == local

\* lines 145, 146: the two reductions
AddObjVal(total, local) == total + local
AndOptimal(flag, local) == flag /\ local

\* mutant: the returned subgraph is not verified
FirstFailing_Skipped(comps, n) == 0

\* lines 147-148: position of the first returned component that is no
\* bi-clique, 0 when every one is
FirstFailing(comps, n) ==
    IF \E i \in 1 .. Len(comps) : ~is_bi_clique(comps[i], n)
    THEN MinOf({i \in 1 .. Len(comps) : ~is_bi_clique(comps[i], n)})
    ELSE 0

\* mutant: the loop does not advance
CurrentSubgraph_First(queue, done) == queue[1]

\* line 136: the subgraph of the current loop iteration
CurrentSubgraph(queue, done) == queue[done + 1]

\* The instances: matrices of up to NumRows x NumCols whose positive entries
\* (edges) lie on the diagonal or right above it, so that the graph is a
\* union of paths c0 - r0 - c1 - r1 - ...; an edge weighs 2, a non-edge -1.
Matrices(n, m) ==
    LET band == {p \in (1 .. n) \X (1 .. m) : p[2] - p[1] \in {0, 1}}
    IN {[i \in 1 .. n |-> [k \in 1 .. m |-> IF <<i, k>> \in P THEN 2 ELSE -1]] :
            P \in SUBSET band}

Instances ==
    UNION {Matrices(n, m) : n \in 1 .. NumRows, m \in 1 .. NumCols}

\* lines 96-135: build the graph, classify the components, reset the totals.
\* connected_components fixes no order: the bi-cliques are taken in the
\* order of their least node, the remaining components in any order.
Start(w) ==
    /\ pc = "idle"
    /\ LET n == Len(w)
           comps == connected_components(build_graph_from_weights(w))
       IN /\ weights' = w
          /\ num_rows' = n
          /\ num_cols' = Len(w[1])
          /\ components' = comps
          /\ bi_clusters' = MapBiClusters(Filter(comps, n, TRUE), n)
          /\ subgraphs' \in Orderings(Range(Filter(comps, n, FALSE)))
    /\ obj_val' = 0
    /\ is_optimal' = TRUE
    /\ counter' = 0
    /\ pc' = "solving"
    /\ UNCHANGED <<algorithm, observed, calls, result, error>>

\* lines 136-160: one iteration of the loop over the hard subgraphs
SolveSubproblem ==
    /\ pc = "solving"
    /\ counter < Len(subgraphs)
    /\ counter' = counter + 1
    /\ LET subgraph == CurrentSubgraph(subgraphs, counter)
       IN \E answer \in SolverAnswers(weights, subgraph) :
            LET r == run(answer)
                comps == connected_components(r.ret.graph)
                bad == FirstFailing(comps, num_rows)
            IN IF r.raised
               THEN /\ pc' = "raised"
                    /\ error' = r.call
                    /\ UNCHANGED <<calls, obj_val, is_optimal, bi_clusters>>
               ELSE /\ calls' = Append(calls, [subgraph |-> subgraph,
                                               call |-> r.call,
                                               answer |-> answer])
                    /\ obj_val' = AddObjVal(obj_val, r.ret.cost)
                    /\ is_optimal' = AndOptimal(is_optimal, r.ret.is_optimal)
                    /\ IF bad # 0
                       THEN /\ bi_clusters' = bi_clusters \o
                                   MapBiClusters(SubSeq(comps, 1, bad - 1), num_rows)
                            /\ pc' = "raised"
                            /\ error' = <<"Subgraph should be bi-clique but isn't.",
                                          comps[bad].nodes, comps[bad].edges>>
                       ELSE /\ bi_clusters' = bi_clusters \o
                                   MapBiClusters(comps, num_rows)
                            /\ UNCHANGED <<pc, error>>
    /\ UNCHANGED <<algorithm, observed, weights, num_rows, num_cols, components,
                   subgraphs, result>>

\* line 173
Return ==
    /\ pc = "solving"
    /\ counter = Len(subgraphs)
    /\ result' = <<bi_clusters, obj_val, is_optimal>>
    /\ pc' = "returned"
    /\ UNCHANGED <<algorithm, observed, weights, num_rows, num_cols, components,
                   bi_clusters, subgraphs, obj_val, is_optimal, counter, calls, error>>

\* a direct call algorithm.run(weights, subgraph)
AlgRun ==
    /\ pc = "idle"
    /\ \E w \in Matrices(2, 2) :
         \E sub \in Range(connected_components(build_graph_from_weights(w))) :
           \E answer \in SolverAnswers(w, sub) :
             LET r == run(answer)
             IN /\ delegated' = r.call
                /\ solver_answer' = answer
                /\ run_return' = IF r.raised THEN None ELSE <<r.ret>>
    /\ UNCHANGED <<algorithm, last_use, locals>>

LocalsInit ==
    /\ pc = "idle"
    /\ weights = <<>>
    /\ num_rows = 0
    /\ num_cols = 0
    /\ components = <<>>
    /\ bi_clusters = <<>>
    /\ subgraphs = <<>>
    /\ obj_val = 0
    /\ is_optimal = TRUE
    /\ counter = 0
    /\ calls = <<>>
    /\ result = None
    /\ error = None

ObservedInit ==
    /\ last_use = None
    /\ delegated = None
    /\ solver_answer = None
    /\ run_return = None

\* the Algorithm object alone: construction, use_ilp, use_ch, run
InitAlg == AlgorithmInit /\ ObservedInit /\ LocalsInit

NextAlg ==
    \/ \E t \in TimeLimits, tune \in BOOLEAN : use_ilp(t, tune)
    \/ \E a \in Alphas, seed \in Seeds : use_ch(a, seed)
    \/ AlgRun

SpecAlg == InitAlg /\ [][NextAlg]_vars

\* compute_bi_clusters(weights, algorithm) on an Algorithm whose name the
\* caller has set
Init ==
    /\ algorithm_name \in AlgorithmNames
    /\ ilp_time_limit = DefaultTimeLimit
    /\ ilp_tune = FALSE
    /\ ch_alpha = DefaultAlpha
    /\ ch_seed = None
    /\ ObservedInit
    /\ LocalsInit

Next ==
    \/ \E w \in Instances : Start(w)
    \/ SolveSubproblem
    \/ Return

Spec == Init /\ [][Next]_vars

----------------------------------------------------------------------------
(* Vocabulary of the properties *)

\* the connected components of the instance that fail the bi-clique predicate
Hard == {c \in Range(components) : ~is_bi_clique(c, num_rows)}

\* the subgraphs a solver has been invoked on
Called == {calls[i].subgraph : i \in 1 .. Len(calls)}

AnswerFor(c) ==
    calls[CHOOSE i \in 1 .. Len(calls) : calls[i].subgraph = c].answer

Verified(graph) ==
    \A comp \in Range(connected_components(graph)) : is_bi_clique(comp, num_rows)

ValidName == algorithm_name \in {"ILP", "CH"}

\* how often index x stands in the row lists (side 1) or column lists (side 2)
Occurrences(bcs, side, x) ==
    Cardinality({jp \in UNION {{<<j, p>> : p \in 1 .. Len(bcs[j][side])} :
                                   j \in 1 .. Len(bcs)} :
                     bcs[jp[1]][side][jp[2]] = x})

IsPartition(bcs) ==
    /\ \A i \in 0 .. (num_rows - 1) : Occurrences(bcs, 1, i) = 1
    /\ \A k \in 0 .. (num_cols - 1) : Occurrences(bcs, 2, k) = 1

NodesKept ==
    \A i \in 1 .. Len(calls) : calls[i].answer.graph.nodes = calls[i].subgraph.nodes

RECURSIVE SumCost(_)
SumCost(S) ==
    IF S = {} THEN 0
    ELSE LET c == CHOOSE x \in S : TRUE
         IN AnswerFor(c).cost + SumCost(S \ {c})

\* the bi-cluster of a component, stated on sets: the list holds each of the
\* component's indices once
IsBiClusterOf(bc, comp) ==
    /\ Len(bc[1]) = Cardinality(RowsOf(comp, num_rows))
    /\ Range(bc[1]) = RowsOf(comp, num_rows)
    /\ Len(bc[2]) = Cardinality(ColsOf(comp, num_rows))
    /\ Range(bc[2]) = {v - num_rows : v \in ColsOf(comp, num_rows)}

----------------------------------------------------------------------------
(* C1 as stated: whenever compute_bi_clusters returns, the bi-cluster list  *)
(* is a partition of the rows 0..n-1 and of the columns 0..m-1, for every   *)
(* solver result that passes the bi-clique verification.                    *)
C1_PartitionForEveryVerifiedResult ==
    pc = "returned" => IsPartition(result[1])

(* C1 amended: whenever compute_bi_clusters returns and every graph a       *)
(* solver returned has exactly the nodes of the subgraph it was given, the  *)
(* bi-cluster list is a partition of the rows and of the columns.           *)
C1_PartitionWhenNodesKept ==
    (pc = "returned" /\ NodesKept) => IsPartition(result[1])

C1_Witness ==
    /\ pc = "returned"
    /\ NodesKept
    /\ Len(calls) = 2
    /\ Len(result[1]) > Len(components)

(* C2: a call whose returned graph has a component that is no bi-clique     *)
(* ends the computation with the error naming the nodes and edges of such a *)
(* component and without a result, whatever is_optimal flag came with it.   *)
C2_FailedVerificationAborts ==
    \A i \in 1 .. Len(calls) :
        ~Verified(calls[i].answer.graph) =>
            /\ pc = "raised"
            /\ result = None
            /\ Len(error) = 3
            /\ error[1] = "Subgraph should be bi-clique but isn't."
            /\ \E comp \in Range(connected_components(calls[i].answer.graph)) :
                   /\ ~is_bi_clique(comp, num_rows)
                   /\ error[2] = comp.nodes
                   /\ error[3] = comp.edges

C2_Witness ==
    /\ pc = "raised"
    /\ Len(calls) = 2
    /\ calls[2].answer.is_optimal
    /\ ~Verified(calls[2].answer.graph)
    /\ is_optimal

(* C3: on return the optimality flag is the conjunction of the is_optimal   *)
(* flags the solver reported for the hard components, each of which has     *)
(* been solved; it is true when there is none.                              *)
C3_OptimalIsConjunction ==
    pc = "returned" =>
        /\ Called = Hard
        /\ result[3] = (\A c \in Hard : AnswerFor(c).is_optimal)

C3_Witness ==
    /\ pc = "returned"
    /\ Len(calls) = 2
    /\ ~calls[1].answer.is_optimal
    /\ calls[2].answer.is_optimal
    /\ result[3] = FALSE

(* C4: on return the objective value is the sum, over the hard components,  *)
(* of the cost the solver reported for that component.                      *)
C4_CostIsSum ==
    pc = "returned" =>
        /\ Called = Hard
        /\ Cardinality(Hard) = Len(calls)
        /\ result[2] = SumCost(Hard)

C4_Witness ==
    /\ pc = "returned"
    /\ Cardinality(Hard) = 2
    /\ calls[1].answer.cost = 2
    /\ calls[2].answer.cost = 1
    /\ result[2] = 3

(* C5: when every component of the instance is a bi-clique, nothing is      *)
(* queued for a solver, no solver is called, nothing is raised, and the     *)
(* result is cost 0, optimal, and one bi-cluster per component holding its  *)
(* rows and translated columns.                                             *)
C5_AllBiCliques ==
    (pc # "idle" /\ Hard = {}) =>
        /\ subgraphs = <<>>
        /\ calls = <<>>
        /\ pc # "raised"
        /\ pc = "returned" =>
              /\ result[2] = 0
              /\ result[3] = TRUE
              /\ Len(result[1]) = Len(components)
              /\ \A j \in 1 .. Len(components) :
                     IsBiClusterOf(result[1][j], components[j])

C5_Witness ==
    /\ pc = "returned"
    /\ Hard = {}
    /\ Len(components) = 3
    /\ \E j \in 1 .. 3 : Len(result[1][j][1]) = 2
    /\ \E j \in 1 .. 3 : Len(result[1][j][2]) = 2

(* C6 as stated: with a name that is neither "ILP" nor "CH" the computation *)
(* aborts on every instance.                                                *)
C6_InvalidNameAlwaysAborts ==
    ~ValidName => pc # "returned"

(* C6 amended: with a name that is neither "ILP" nor "CH" no solver is ever *)
(* invoked; when the instance has a component that is no bi-clique, the     *)
(* computation aborts at the first call of run, with the error naming the   *)
(* name and the two options and without a result; when every component is   *)
(* a bi-clique nothing is raised and the computation returns.               *)
C6_InvalidNameAbortsAtFirstCall ==
    ~ValidName =>
        /\ calls = <<>>
        /\ pc = "raised" =>
              /\ Hard # {}
              /\ counter = 1
              /\ result = None
              /\ error = <<"raise", "Invalid algorithm name", algorithm_name,
                           "Options", "ILP", "CH">>
        /\ pc = "returned" => Hard = {}
        /\ (pc = "solving" /\ Hard # {}) => counter = 0

C6_Witness ==
    /\ ~ValidName
    /\ pc = "raised"
    /\ Cardinality(Hard) = 2
    /\ counter = 1
    /\ error[3] = "XYZ"

(* C7: a call of run delegates to the solver the most recent use_ilp or     *)
(* use_ch selected (ILP with time limit 60 and tune False when there was    *)
(* none), with the parameters of that call, and returns the solver's triple *)
(* unchanged.                                                               *)
ExpectedCall ==
    IF last_use = None THEN <<"ilp.run", DefaultTimeLimit, FALSE>>
    ELSE IF last_use[1] = "ILP" THEN <<"ilp.run", last_use[2], last_use[3]>>
    ELSE <<"ch.run", last_use[2], last_use[3]>>

C7_RunDelegatesToLastSelected ==
    [][(delegated' # delegated \/ solver_answer' # solver_answer
          \/ run_return' # run_return)
        => (delegated' = ExpectedCall /\ run_return' = <<solver_answer'>>)]_vars

C7_Witness ==
    /\ last_use = <<"CH", 0, <<7>>>>
    /\ ilp_time_limit = 0
    /\ ilp_tune = TRUE
    /\ Len(delegated) = 3
    /\ delegated[1] = "ch.run"
    /\ delegated[2] = 0
    /\ delegated[3] = <<7>>
    /\ run_return = <<solver_answer>>

(* C8: a component with rows only or columns only is never queued for or    *)
(* passed to a solver, its bi-cluster (the other list empty) is in the list *)
(* from the first loop on and in the result, and the objective value is the *)
(* sum of the costs of the solver calls, none of which is for it.           *)
OneSided(c) == RowsOf(c, num_rows) = {} \/ ColsOf(c, num_rows) = {}

RECURSIVE CostOfCalls(_)
CostOfCalls(k) ==
    IF k = 0 THEN 0 ELSE CostOfCalls(k - 1) + calls[k].answer.cost

C8_OneSidedComponentsAreTrivial ==
    pc # "idle" =>
        /\ \A c \in Range(components) :
             OneSided(c) =>
                /\ c \notin Range(subgraphs)
                /\ c \notin Called
                /\ \E j \in 1 .. Len(bi_clusters) : IsBiClusterOf(bi_clusters[j], c)
                /\ pc = "returned" =>
                      \E j \in 1 .. Len(result[1]) : IsBiClusterOf(result[1][j], c)
        /\ obj_val = CostOfCalls(Len(calls))

C8_Witness ==
    /\ pc = "returned"
    /\ \E c \in Range(components) : RowsOf(c, num_rows) = {}
    /\ \E c \in Range(components) : ColsOf(c, num_rows) = {}
    /\ Len(calls) = 1
    /\ result[2] > 0
    /\ <<<<0>>, <<>>>> \in Range(result[1])

(* C9: a solver is called only on components that fail the bi-clique       *)
(* predicate, on each at most once, one call per loop iteration, and never  *)
(* after a call whose result failed verification; on return it has been     *)
(* called on every such component.                                          *)
C9_SolverCalledOncePerHardComponent ==
    /\ \A i \in 1 .. Len(calls) : calls[i].subgraph \in Hard
    /\ \A i, j \in 1 .. Len(calls) :
           i # j => calls[i].subgraph # calls[j].subgraph
    /\ Len(calls) <= counter
    /\ \A i \in 1 .. (Len(calls) - 1) : Verified(calls[i].answer.graph)
    /\ pc = "returned" => Called = Hard

C9_Witness ==
    /\ pc = "returned"
    /\ Len(calls) = 2
    /\ Called = Hard
    /\ calls[1].call[1] = "ch.run"

(* C10: the outcome is a function of the instance and of the triple the     *)
(* solver returns for each hard component, whatever the order of the hard   *)
(* components: a return carries the sum of the costs, the conjunction of    *)
(* the flags and the bi-clusters of the bi-clique components and of the     *)
(* components of the returned graphs, and needs every returned graph to     *)
(* pass verification; an abort needs an invalid name and a hard component,  *)
(* or a returned graph that fails verification.                             *)
ExpectedComponents ==
    (Range(components) \ Hard) \cup
    UNION {Range(connected_components(AnswerFor(c).graph)) : c \in Hard}

====
